---- MODULE Spec2Model ----
(***************************************************************************)
(* A model of mipi.py: the MIPI DCS command table and DSI transaction      *)
(* table, DCSCommand.find, the parameter codecs and the per-transaction    *)
(* generators.  A Python call either returns a value or raises; both are    *)
(* outcomes [status, value].  Text is built the way the f-strings build it. *)
(***************************************************************************)
EXTENDS Integers, Sequences, FiniteSets, TLC

VARIABLES DCSCommand, Transaction, pc, call, result

vars == <<DCSCommand, Transaction, pc, call, result>>

\* ---------------------------------------------------------------- bounds

\* Longest argument list (bytes after the first payload byte) drawn.
MaxArgs == 7

\* Argument lists up to this length range over all of ArgBytes; longer ones
\* are ramps (b, b+1, b+2, ...) from the bytes of RampBases.
RichLen == 2

\* Largest byte width the integer codec is called with directly.
MaxWidth == 3

\* ------------------------------------------------------- Python outcomes

\* Optional[...]: None, or a value.
None == <<>>

Some(x) == <<x>>

Ret(v) == [status |-> "return", value |-> v]

\* raise exc(arg)
Raise(exc, arg) == [status |-> "raise", value |-> <<exc, arg>>]

NoResult == [status |-> "none", value |-> None]

\* str(i) for i >= 0
RECURSIVE str(_)
str(i) ==
    LET d == <<"0", "1", "2", "3", "4", "5", "6", "7", "8", "9">>
    IN  IF i < 10 THEN d[i + 1] ELSE str(i \div 10) \o d[(i % 10) + 1]

\* ------------------------------------------------------------ formatting

\* format(i, 'x'): lower-case hexadecimal, no prefix, no padding
RECURSIVE hex(_)
hex(i) ==
    LET d == <<"0", "1", "2", "3", "4", "5", "6", "7",
               "8", "9", "a", "b", "c", "d", "e", "f">>
    IN  IF i < 16 THEN d[i + 1] ELSE hex(i \div 16) \o d[(i % 16) + 1]

\* the number of characters of hex(i)
RECURSIVE hexlen(_)
hexlen(i) == IF i < 16 THEN 1 ELSE 1 + hexlen(i \div 16)

RECURSIVE zeros(_)
zeros(n) == IF n <= 0 THEN "" ELSE "0" \o zeros(n - 1)

\* A faulty _hex_fill: the width is dropped, f'{i:#x}'.
_hex_fill_nopad(i, size) == "0x" \o hex(i)

\* f'{i:#0{size * 2 + 2}x}': "0x", then the digits zero-padded so that the
\* whole token has at least size * 2 + 2 characters.

_hex_fill(i, size) ==
    "0x" \o zeros((size * 2 + 2) - 2 - hexlen(i)) \o hex(i)

\* ', '.join(p)
RECURSIVE join(_)
join(p) ==
    IF Len(p) = 0 THEN ""
    ELSE IF Len(p) = 1 THEN p[1]
    ELSE p[1] \o ", " \o join(Tail(p))

\* ', ' + ', '.join(p) if p else ''
_join_params(p) == IF Len(p) > 0 THEN ", " \o join(p) ELSE ""

\* ---------------------------------------------------------------- codecs

_get_params_hex(b) == [i \in 1..Len(b) |-> _hex_fill(b[i], 1)]

\* int.from_bytes(t, byteorder=byteorder)
RECURSIVE from_bytes_big(_)
from_bytes_big(t) ==
    IF Len(t) = 0 THEN 0
    ELSE from_bytes_big(SubSeq(t, 1, Len(t) - 1)) * 256 + t[Len(t)]

RECURSIVE from_bytes_little(_)
from_bytes_little(t) ==
    IF Len(t) = 0 THEN 0
    ELSE t[1] + 256 * from_bytes_little(Tail(t))

\* A faulty from_bytes: the byte order is ignored.
from_bytes_any_big(t, byteorder) == from_bytes_big(t)

from_bytes(t, byteorder) ==
    IF byteorder = "big" THEN from_bytes_big(t) ELSE from_bytes_little(t)

\* zip(*[itr] * size): consecutive groups of size bytes; a shorter last group
\* is dropped.
_get_params_int(size, byteorder, b) ==
    [k \in 1..(Len(b) \div size) |->
        _hex_fill(from_bytes(SubSeq(b, (k - 1) * size + 1, k * size), byteorder),
                  size)]

\* class TearMode(IntEnum): value -> name
TearMode == (0 :> "VBLANK") @@ (1 :> "VHBLANK")

TearMode_identifier(v) == "MIPI_DSI_DCS_TEAR_MODE_" \o TearMode[v]

\* A faulty get_params: the value is reduced into the enumeration instead of
\* being looked up.
TearMode_get_params_lenient(b) ==
    IF Len(b) = 0 THEN Raise("IndexError", "index out of range")
    ELSE Ret(<<TearMode_identifier(b[1] % 2)>>)

\* [TearMode(b[0]).identifier]
TearMode_get_params(b) ==
    IF Len(b) = 0 THEN Raise("IndexError", "index out of range")
    ELSE IF b[1] \notin DOMAIN TearMode
         THEN Raise("ValueError", str(b[1]) \o " is not a valid TearMode")
         ELSE Ret(<<TearMode_identifier(b[1])>>)

\* A get_params attribute is <<function name, bound arguments...>>.
get_params(codec, b) ==
    CASE codec[1] = "_get_params_hex" -> Ret(_get_params_hex(b))
      [] codec[1] = "_get_params_int" -> Ret(_get_params_int(codec[2], codec[3], b))
      [] codec[1] = "TearMode.get_params" -> TearMode_get_params(b)

\* ------------------------------------------------------------ DCSCommand

\* The members of class DCSCommand(Enum), in definition order: the name and
\* the value tuple that is passed to __new__.
DCSCommandMembers ==
    <<
        <<"NOP", <<\h00, 0, "mipi_dsi_dcs_nop">>>>,
        <<"SOFT_RESET", <<\h01, 0, "mipi_dsi_dcs_soft_reset">>>>,
        <<"GET_DISPLAY_ID", <<\h04>>>>,
        <<"GET_RED_CHANNEL", <<\h06>>>>,
        <<"GET_GREEN_CHANNEL", <<\h07>>>>,
        <<"GET_BLUE_CHANNEL", <<\h08>>>>,
        <<"GET_DISPLAY_STATUS", <<\h09>>>>,
        <<"GET_POWER_MODE", <<\h0A>>>>,
        <<"GET_ADDRESS_MODE", <<\h0B>>>>,
        <<"GET_PIXEL_FORMAT", <<\h0C>>>>,
        <<"GET_DISPLAY_MODE", <<\h0D>>>>,
        <<"GET_SIGNAL_MODE", <<\h0E>>>>,
        <<"GET_DIAGNOSTIC_RESULT", <<\h0F>>>>,
        <<"ENTER_SLEEP_MODE", <<\h10, 0, "mipi_dsi_dcs_enter_sleep_mode">>>>,
        <<"EXIT_SLEEP_MODE", <<\h11, 0, "mipi_dsi_dcs_exit_sleep_mode">>>>,
        <<"ENTER_PARTIAL_MODE", <<\h12, 0>>>>,
        <<"ENTER_NORMAL_MODE", <<\h13, 0>>>>,
        <<"EXIT_INVERT_MODE", <<\h20, 0>>>>,
        <<"ENTER_INVERT_MODE", <<\h21, 0>>>>,
        <<"SET_GAMMA_CURVE", <<\h26, 1>>>>,
        <<"SET_DISPLAY_OFF", <<\h28, 0, "mipi_dsi_dcs_set_display_off">>>>,
        <<"SET_DISPLAY_ON", <<\h29, 0, "mipi_dsi_dcs_set_display_on">>>>,
        <<"SET_COLUMN_ADDRESS", <<\h2A, 4, "mipi_dsi_dcs_set_column_address", <<"_get_params_int", 2, "big">>>>>>,
        <<"SET_PAGE_ADDRESS", <<\h2B, 4, "mipi_dsi_dcs_set_page_address", <<"_get_params_int", 2, "big">>>>>>,
        <<"WRITE_MEMORY_START", <<\h2C>>>>,
        <<"WRITE_LUT", <<\h2D>>>>,
        <<"READ_MEMORY_START", <<\h2E>>>>,
        <<"SET_PARTIAL_AREA", <<\h30>>>>,
        <<"SET_SCROLL_AREA", <<\h33, 6>>>>,
        <<"SET_TEAR_OFF", <<\h34, 0, "mipi_dsi_dcs_set_tear_off", <<"TearMode.get_params">>>>>>,
        <<"SET_TEAR_ON", <<\h35, 1, "mipi_dsi_dcs_set_tear_on", <<"TearMode.get_params">>>>>>,
        <<"SET_ADDRESS_MODE", <<\h36, 1>>>>,
        <<"SET_SCROLL_START", <<\h37, 2>>>>,
        <<"EXIT_IDLE_MODE", <<\h38, 0>>>>,
        <<"ENTER_IDLE_MODE", <<\h39, 0>>>>,
        <<"SET_PIXEL_FORMAT", <<\h3A, 1, "mipi_dsi_dcs_set_pixel_format">>>>,
        <<"WRITE_MEMORY_CONTINUE", <<\h3C>>>>,
        <<"READ_MEMORY_CONTINUE", <<\h3E>>>>,
        <<"SET_TEAR_SCANLINE", <<\h44, 2, "mipi_dsi_dcs_set_tear_scanline", <<"_get_params_int", 2, "big">>>>>>,
        <<"GET_SCANLINE", <<\h45>>>>,
        <<"SET_DISPLAY_BRIGHTNESS", <<\h51, 2, "mipi_dsi_dcs_set_display_brightness", <<"_get_params_int", 2, "little">>>>>>,
        <<"GET_DISPLAY_BRIGHTNESS", <<\h52>>>>,
        <<"WRITE_CONTROL_DISPLAY", <<\h53>>>>,
        <<"GET_CONTROL_DISPLAY", <<\h54>>>>,
        <<"WRITE_POWER_SAVE", <<\h55>>>>,
        <<"GET_POWER_SAVE", <<\h56>>>>,
        <<"SET_CABC_MIN_BRIGHTNESS", <<\h5E>>>>,
        <<"GET_CABC_MIN_BRIGHTNESS", <<\h5F>>>>,
        <<"READ_DDB_START", <<\hA1>>>>,
        <<"READ_DDB_CONTINUE", <<\hA8>>>>
    >>

\* DCSCommand.__new__(cls, value, nargs=None, method=None,
\*                    get_params=_get_params_hex)
DCSCommand__new__(name, a) ==
    [name       |-> name,
     value      |-> a[1],
     nargs      |-> IF Len(a) >= 2 THEN Some(a[2]) ELSE None,
     method     |-> IF Len(a) >= 3 THEN Some(a[3]) ELSE None,
     get_params |-> IF Len(a) >= 4 THEN a[4] ELSE <<"_get_params_hex">>]

\* The enum's value -> member map, as class creation builds it.
DCSCommandTable ==
    LET values == {DCSCommandMembers[i][2][1] : i \in DOMAIN DCSCommandMembers}
    IN  [v \in values |->
            LET i == CHOOSE j \in DOMAIN DCSCommandMembers :
                         DCSCommandMembers[j][2][1] = v
            IN  DCSCommand__new__(DCSCommandMembers[i][1], DCSCommandMembers[i][2])]

\* 'MIPI_DCS_' + self.name
DCSCommand_identifier(dcs) == "MIPI_DCS_" \o DCSCommand[dcs].name

\* name.lower().replace('_', ' '), for the members whose description is read
\* (those with a method, and the two peripheral transactions).
description(name) ==
    CASE name = "NOP" -> "nop"
      [] name = "SOFT_RESET" -> "soft reset"
      [] name = "ENTER_SLEEP_MODE" -> "enter sleep mode"
      [] name = "EXIT_SLEEP_MODE" -> "exit sleep mode"
      [] name = "SET_DISPLAY_OFF" -> "set display off"
      [] name = "SET_DISPLAY_ON" -> "set display on"
      [] name = "SET_COLUMN_ADDRESS" -> "set column address"
      [] name = "SET_PAGE_ADDRESS" -> "set page address"
      [] name = "SET_TEAR_OFF" -> "set tear off"
      [] name = "SET_TEAR_ON" -> "set tear on"
      [] name = "SET_PIXEL_FORMAT" -> "set pixel format"
      [] name = "SET_TEAR_SCANLINE" -> "set tear scanline"
      [] name = "SET_DISPLAY_BRIGHTNESS" -> "set display brightness"
      [] name = "SHUTDOWN_PERIPHERAL" -> "shutdown peripheral"
      [] name = "TURN_ON_PERIPHERAL" -> "turn on peripheral"

\* x == opt, where x is an int and opt an Optional[int]: an int never equals
\* None.
int_eq(x, opt) == opt # None /\ opt[1] = x

\* A faulty find: the opcode byte is counted as an argument.
DCSCommand_find_off_by_one(payload) ==
    IF Len(payload) = 0 THEN Raise("IndexError", "index out of range")
    ELSE IF payload[1] \notin DOMAIN DCSCommand THEN Ret(None)
    ELSE IF int_eq(Len(payload), DCSCommand[payload[1]].nargs)
         THEN Ret(Some(payload[1]))
         ELSE Ret(None)

\* A faulty find: the ValueError of the lookup is not caught.
DCSCommand_find_uncaught(payload) ==
    IF Len(payload) = 0 THEN Raise("IndexError", "index out of range")
    ELSE IF payload[1] \notin DOMAIN DCSCommand
         THEN Raise("ValueError", str(payload[1]) \o " is not a valid DCSCommand")
    ELSE IF int_eq(Len(payload) - 1, DCSCommand[payload[1]].nargs)
         THEN Ret(Some(payload[1]))
         ELSE Ret(None)

\* DCSCommand.find(payload) -> Optional[DCSCommand]; a member is denoted by
\* its value.  payload[0] of an empty payload raises IndexError, which the
\* except ValueError clause does not catch.
DCSCommand_find(payload) ==
    IF Len(payload) = 0 THEN Raise("IndexError", "index out of range")
    ELSE IF payload[1] \notin DOMAIN DCSCommand THEN Ret(None)
    ELSE IF int_eq(Len(payload) - 1, DCSCommand[payload[1]].nargs)
         THEN Ret(Some(payload[1]))
         ELSE Ret(None)

\* ------------------------------------------------------------ generators

\* A generated statement: its text, and the parts the text is built from
\* (whether it is wrapped by _check_ret, the function or macro called, and
\* the list handed to _join_params).
Out(checked, callee, params, text) ==
    [checked |-> checked, callee |-> callee, params |-> params, text |-> text]

_check_ret(expr, desc) ==
    "\tret = " \o expr \o ";\n"
    \o "\tif (ret < 0) {\n"
    \o "\t\tdev_err(dev, \"Failed to " \o desc \o ": %d\\n\", ret);\n"
    \o "\t\treturn ret;\n"
    \o "\t}"

_generate_generic_write(t, payload) ==
    LET args == _get_params_hex(payload)
    IN  Ret(Out(FALSE, "dsi_generic_write_seq", args,
                "\tdsi_generic_write_seq(dsi" \o _join_params(args) \o ");"))

_generate_dcs_write(t, payload) ==
    LET found == DCSCommand_find(payload)
    IN  IF found.status = "raise" THEN found
        ELSE LET dcs == found.value
             IN  IF dcs # None /\ DCSCommand[dcs[1]].method # None
                    /\ DCSCommand[dcs[1]].method[1] # ""
                 THEN LET m == DCSCommand[dcs[1]]
                          p == get_params(m.get_params, Tail(payload))
                      IN  IF p.status = "raise" THEN p
                          ELSE Ret(Out(TRUE, m.method[1], p.value,
                                       _check_ret(m.method[1] \o "(dsi"
                                                  \o _join_params(p.value) \o ")",
                                                  description(m.name))))
                 ELSE LET hexargs == _get_params_hex(payload)
                          args == IF dcs # None
                                  THEN [hexargs EXCEPT ![1] = DCSCommand[dcs[1]].name]
                                  ELSE hexargs
                      IN  Ret(Out(FALSE, "dsi_dcs_write_seq", args,
                                  "\tdsi_dcs_write_seq(dsi" \o _join_params(args)
                                  \o ");"))

\* A faulty _generate_peripheral: no else branch, every other transaction
\* type is taken for SHUTDOWN_PERIPHERAL.
_generate_peripheral_any(t, payload) ==
    IF t = "TURN_ON_PERIPHERAL"
    THEN Ret(Out(TRUE, "mipi_dsi_turn_on_peripheral", <<>>,
                 _check_ret("mipi_dsi_turn_on_peripheral(dsi)", "turn on peripheral")))
    ELSE Ret(Out(TRUE, "mipi_dsi_shutdown_peripheral", <<>>,
                 _check_ret("mipi_dsi_shutdown_peripheral(dsi)", "shutdown peripheral")))

\* A Transaction member is denoted by its name.
_generate_peripheral(t, payload) ==
    IF t = "TURN_ON_PERIPHERAL"
    THEN Ret(Out(TRUE, "mipi_dsi_turn_on_peripheral", <<>>,
                 _check_ret("mipi_dsi_turn_on_peripheral(dsi)", description(t))))
    ELSE IF t = "SHUTDOWN_PERIPHERAL"
    THEN Ret(Out(TRUE, "mipi_dsi_shutdown_peripheral", <<>>,
                 _check_ret("mipi_dsi_shutdown_peripheral(dsi)", description(t))))
    ELSE Raise("ValueError", t)

\* A faulty _generate_fallback: an empty statement instead of the error.
_generate_fallback_silent(t, payload) ==
    Ret(Out(FALSE, "", <<>>, ""))

_generate_fallback(t, payload) ==
    Raise("ValueError", t \o " is not supported")

\* ----------------------------------------------------------- Transaction

\* The members of class Transaction(Enum), in definition order.
TransactionMembers ==
    <<
        <<"V_SYNC_START", <<\h01>>>>,
        <<"V_SYNC_END", <<\h11>>>>,
        <<"H_SYNC_START", <<\h21>>>>,
        <<"H_SYNC_END", <<\h31>>>>,
        <<"COLOR_MODE_OFF", <<\h02>>>>,
        <<"COLOR_MODE_ON", <<\h12>>>>,
        <<"SHUTDOWN_PERIPHERAL", <<\h22, 0, "_generate_peripheral">>>>,
        <<"TURN_ON_PERIPHERAL", <<\h32, 0, "_generate_peripheral">>>>,
        <<"GENERIC_SHORT_WRITE_0_PARAM", <<\h03, 0, "_generate_generic_write">>>>,
        <<"GENERIC_SHORT_WRITE_1_PARAM", <<\h13, 1, "_generate_generic_write">>>>,
        <<"GENERIC_SHORT_WRITE_2_PARAM", <<\h23, 2, "_generate_generic_write">>>>,
        <<"GENERIC_READ_REQUEST_0_PARAM", <<\h04>>>>,
        <<"GENERIC_READ_REQUEST_1_PARAM", <<\h14>>>>,
        <<"GENERIC_READ_REQUEST_2_PARAM", <<\h24>>>>,
        <<"DCS_SHORT_WRITE", <<\h05, 0, "_generate_dcs_write">>>>,
        <<"DCS_SHORT_WRITE_PARAM", <<\h15, 1, "_generate_dcs_write">>>>,
        <<"DCS_READ", <<\h06>>>>,
        <<"DCS_COMPRESSION_MODE", <<\h07>>>>,
        <<"PPS_LONG_WRITE", <<\h0A>>>>,
        <<"SET_MAXIMUM_RETURN_PACKET_SIZE", <<\h37>>>>,
        <<"END_OF_TRANSMISSION", <<\h08>>>>,
        <<"NULL_PACKET", <<\h09>>>>,
        <<"BLANKING_PACKET", <<\h19>>>>,
        <<"GENERIC_LONG_WRITE", <<\h29, -1, "_generate_generic_write">>>>,
        <<"DCS_LONG_WRITE", <<\h39, -1, "_generate_dcs_write">>>>,
        <<"LOOSELY_PACKED_PIXEL_STREAM_YCBCR20", <<\h0C>>>>,
        <<"PACKED_PIXEL_STREAM_YCBCR24", <<\h1C>>>>,
        <<"PACKED_PIXEL_STREAM_YCBCR16", <<\h2C>>>>,
        <<"PACKED_PIXEL_STREAM_30", <<\h0D>>>>,
        <<"PACKED_PIXEL_STREAM_36", <<\h1D>>>>,
        <<"PACKED_PIXEL_STREAM_YCBCR12", <<\h3D>>>>,
        <<"PACKED_PIXEL_STREAM_16", <<\h0E>>>>,
        <<"PACKED_PIXEL_STREAM_18", <<\h1E>>>>,
        <<"PIXEL_STREAM_3BYTE_18", <<\h2E>>>>,
        <<"PACKED_PIXEL_STREAM_24", <<\h3E>>>>
    >>

\* Transaction.__new__(cls, value, max_args=-1, generate=_generate_fallback)
Transaction__new__(name, a) ==
    [name      |-> name,
     value     |-> a[1],
     max_args  |-> IF Len(a) >= 2 THEN a[2] ELSE -1,
     _generate |-> IF Len(a) >= 3 THEN a[3] ELSE "_generate_fallback"]

\* The enum's name -> member map.
TransactionTable ==
    LET names == {TransactionMembers[i][1] : i \in DOMAIN TransactionMembers}
    IN  [n \in names |->
            LET i == CHOOSE j \in DOMAIN TransactionMembers :
                         TransactionMembers[j][1] = n
            IN  Transaction__new__(n, TransactionMembers[i][2])]

\* Transaction.generate(self, payload): self._generate(self, payload)
Transaction_generate(t, payload) ==
    LET g == Transaction[t]._generate
    IN  CASE g = "_generate_peripheral" -> _generate_peripheral(t, payload)
          [] g = "_generate_generic_write" -> _generate_generic_write(t, payload)
          [] g = "_generate_dcs_write" -> _generate_dcs_write(t, payload)
          [] g = "_generate_fallback" -> _generate_fallback(t, payload)

\* ---------------------------------------------------------------- inputs

\* Argument bytes every short argument list ranges over.
ArgBytes == {0, 1, 2, \h2C, \hFF}

\* First bytes of the ramps used for the longer argument lists.
RampBases == {\h01, \h2C}

Ramp(base, n) == [i \in 1..n |-> (base + i - 1) % 256]

ArgSeqs ==
    UNION {[1..n -> ArgBytes] : n \in 0..RichLen}
    \cup {Ramp(base, n) : base \in RampBases, n \in (RichLen + 1)..MaxArgs}

\* First payload bytes: every opcode of the table and three that are none.
FirstBytes == DOMAIN DCSCommandTable \cup {\h02, \h77, \hFF}

Payloads == {<<>>} \cup {<<f>> \o a : f \in FirstBytes, a \in ArgSeqs}

Widths == 1..MaxWidth

\* The calls made: which function, with which arguments.
Calls ==
    [fn : {"find"}, payload : Payloads]
    \cup [fn : {"generate"}, t : DOMAIN TransactionTable, payload : Payloads]
    \cup [fn : {"_generate_peripheral"}, t : DOMAIN TransactionTable,
          payload : ArgSeqs]
    \cup [fn : {"_get_params_int"}, size : Widths, byteorder : {"big", "little"},
          b : ArgSeqs]
    \cup [fn : {"_get_params_hex"}, b : ArgSeqs]
    \cup [fn : {"TearMode.get_params"}, b : ArgSeqs]

\* ----------------------------------------------------------- the machine

\* After import: both enum classes are built, one call is about to be made.
Init ==
    /\ DCSCommand = DCSCommandTable
    /\ Transaction = TransactionTable
    /\ pc = "idle"
    /\ call \in Calls
    /\ result = NoResult

Find ==
    /\ pc = "idle" /\ call.fn = "find"
    /\ result' = DCSCommand_find(call.payload)
    /\ pc' = "returned"
    /\ UNCHANGED <<DCSCommand, Transaction, call>>

Generate ==
    /\ pc = "idle" /\ call.fn = "generate"
    /\ result' = Transaction_generate(call.t, call.payload)
    /\ pc' = "returned"
    /\ UNCHANGED <<DCSCommand, Transaction, call>>

GeneratePeripheral ==
    /\ pc = "idle" /\ call.fn = "_generate_peripheral"
    /\ result' = _generate_peripheral(call.t, call.payload)
    /\ pc' = "returned"
    /\ UNCHANGED <<DCSCommand, Transaction, call>>

GetParamsInt ==
    /\ pc = "idle" /\ call.fn = "_get_params_int"
    /\ result' = Ret(_get_params_int(call.size, call.byteorder, call.b))
    /\ pc' = "returned"
    /\ UNCHANGED <<DCSCommand, Transaction, call>>

GetParamsHex ==
    /\ pc = "idle" /\ call.fn = "_get_params_hex"
    /\ result' = Ret(_get_params_hex(call.b))
    /\ pc' = "returned"
    /\ UNCHANGED <<DCSCommand, Transaction, call>>

TearModeGetParams ==
    /\ pc = "idle" /\ call.fn = "TearMode.get_params"
    /\ result' = TearMode_get_params(call.b)
    /\ pc' = "returned"
    /\ UNCHANGED <<DCSCommand, Transaction, call>>

Next ==
    \/ Find
    \/ Generate
    \/ GeneratePeripheral
    \/ GetParamsInt
    \/ GetParamsHex
    \/ TearModeGetParams

Spec == Init /\ [][Next]_vars

\* ---------------------------------------------------------------- claims

\* The call named fn has returned or raised.
Returned(fn) == pc = "returned" /\ call.fn = fn

DcsWrites == {"DCS_SHORT_WRITE", "DCS_SHORT_WRITE_PARAM", "DCS_LONG_WRITE"}

GenericWrites ==
    {"GENERIC_SHORT_WRITE_0_PARAM", "GENERIC_SHORT_WRITE_1_PARAM",
     "GENERIC_SHORT_WRITE_2_PARAM", "GENERIC_LONG_WRITE"}

Peripherals == {"SHUTDOWN_PERIPHERAL", "TURN_ON_PERIPHERAL"}

\* A command-set write transaction was rendered with a non-empty payload.
DcsWriteRendered ==
    Returned("generate") /\ call.t \in DcsWrites /\ Len(call.payload) >= 1

\* The token 0xNN of one byte, written out nibble by nibble.
ByteDigits(b) ==
    LET d == <<"0", "1", "2", "3", "4", "5", "6", "7",
               "8", "9", "a", "b", "c", "d", "e", "f">>
    IN  d[(b \div 16) + 1] \o d[(b % 16) + 1]

\* The digits of a byte group, most significant byte first.
RECURSIVE GroupDigits(_)
GroupDigits(g) ==
    IF Len(g) = 0 THEN "" ELSE ByteDigits(g[1]) \o GroupDigits(Tail(g))

Reverse(g) == [i \in 1..Len(g) |-> g[Len(g) + 1 - i]]

\* ", " before every token
RECURSIVE CommaList(_)
CommaList(p) == IF Len(p) = 0 THEN "" ELSE ", " \o p[1] \o CommaList(Tail(p))

RawTokens(payload) == [i \in 1..Len(payload) |-> "0x" \o ByteDigits(payload[i])]

\* C1: for every table entry whose arity is unspecified, find returns that
\* entry for every payload of length >= 1 that starts with its opcode,
\* whatever the number of trailing bytes.
C1_UnspecifiedArityAccepted ==
    (Returned("find") /\ Len(call.payload) >= 1
       /\ call.payload[1] \in DOMAIN DCSCommand
       /\ DCSCommand[call.payload[1]].nargs = None)
    => (result.status = "return" /\ result.value = Some(call.payload[1]))

\* C2: for every table entry with a fixed arity N and opcode c, find on a
\* payload of N+1 bytes starting with c returns an entry whose opcode is c;
\* on N bytes (N >= 1) or N+2 bytes starting with c it returns None.
C2_FixedArityExact ==
    (Returned("find") /\ Len(call.payload) >= 1
       /\ call.payload[1] \in DOMAIN DCSCommand
       /\ DCSCommand[call.payload[1]].nargs # None)
    => LET c == call.payload[1]
           N == DCSCommand[c].nargs[1]
           n == Len(call.payload)
       IN  /\ n = N + 1 =>
                 /\ result.status = "return"
                 /\ result.value # None
                 /\ DCSCommand[result.value[1]].value = c
           /\ ((n = N /\ N >= 1) \/ n = N + 2) =>
                 /\ result.status = "return"
                 /\ result.value = None

\* find on SET_SCROLL_AREA with its six argument bytes has returned the entry.
C2_Witness ==
    /\ Returned("find")
    /\ call.payload = <<\h33, \h01, \h02, \h03, \h04, \h05, \h06>>
    /\ result.status = "return"
    /\ result.value = Some(\h33)

\* C3: for every payload of length >= 1 find returns normally; an unknown
\* first byte and a known opcode with a mismatching trailing-byte count both
\* give the one result None.
C3_FindReturnsNoneForBothMisses ==
    (Returned("find") /\ Len(call.payload) >= 1)
    => /\ result.status = "return"
       /\ call.payload[1] \notin DOMAIN DCSCommand => result.value = None
       /\ (call.payload[1] \in DOMAIN DCSCommand
             /\ DCSCommand[call.payload[1]].nargs # None
             /\ DCSCommand[call.payload[1]].nargs[1] # Len(call.payload) - 1)
          => result.value = None

\* find on a first byte that is no opcode has returned None.
C3_Witness ==
    /\ Returned("find")
    /\ call.payload = <<\h77, \h01>>
    /\ result.status = "return"
    /\ result.value = None

\* C4: for every entry with a bound method and every payload of its opcode
\* followed by exactly its arity of argument bytes, rendering a command-set
\* write emits an error-checked call to the method, whose parameters are the
\* entry's codec applied to the bytes after the opcode, and never the raw
\* dsi_dcs_write_seq call.
C4_BoundCallEmitted ==
    (DcsWriteRendered
       /\ call.payload[1] \in DOMAIN DCSCommand
       /\ DCSCommand[call.payload[1]].method # None
       /\ DCSCommand[call.payload[1]].nargs = Some(Len(call.payload) - 1))
    => /\ result.status = "return"
       /\ result.value.checked
       /\ result.value.callee = DCSCommand[call.payload[1]].method[1]
       /\ result.value.callee # "dsi_dcs_write_seq"

\* C5: when the inner resolution succeeds on an entry without a bound
\* method, the output is the raw write call whose first token is the
\* entry's identifier, 'MIPI_DCS_' + name, followed by the 0xNN token of each
\* remaining payload byte in order.
C5_IdentifierSubstituted ==
    (DcsWriteRendered
       /\ call.payload[1] \in DOMAIN DCSCommand
       /\ DCSCommand[call.payload[1]].method = None
       /\ DCSCommand[call.payload[1]].nargs = Some(Len(call.payload) - 1))
    => /\ result.status = "return"
       /\ ~result.value.checked
       /\ result.value.callee = "dsi_dcs_write_seq"
       /\ result.value.params =
              <<DCSCommand_identifier(call.payload[1])>>
              \o Tail(RawTokens(call.payload))

\* C6: a command-set write whose inner resolution fails (first byte not an
\* opcode, arity mismatch; an entry of unspecified arity never resolves
\* either) is rendered as the raw write call with exactly one 0xNN token per
\* payload byte, in order; the generic write renderer emits one 0xNN token
\* per payload byte for every payload, the empty one included.
C6_RawWriteOneTokenPerByte ==
    /\ (DcsWriteRendered
          /\ (\/ call.payload[1] \notin DOMAIN DCSCommand
              \/ DCSCommand[call.payload[1]].nargs = None
              \/ DCSCommand[call.payload[1]].nargs[1] # Len(call.payload) - 1))
       => /\ result.status = "return"
          /\ ~result.value.checked
          /\ result.value.callee = "dsi_dcs_write_seq"
          /\ result.value.params = RawTokens(call.payload)
          /\ result.value.text =
                 "\tdsi_dcs_write_seq(dsi"
                 \o CommaList(RawTokens(call.payload)) \o ");"
    /\ (Returned("generate") /\ call.t \in GenericWrites)
       => /\ result.status = "return"
          /\ ~result.value.checked
          /\ result.value.callee = "dsi_generic_write_seq"
          /\ Len(result.value.params) = Len(call.payload)
          /\ result.value.params = RawTokens(call.payload)
          /\ result.value.text =
                 "\tdsi_generic_write_seq(dsi"
                 \o CommaList(RawTokens(call.payload)) \o ");"

\* A command-set write of set-display-on with one byte too many has been
\* rendered raw.
C6_Witness ==
    /\ DcsWriteRendered
    /\ call.payload = <<\h29, \h01>>
    /\ result.status = "return"
    /\ result.value.params = <<"0x29", "0x01">>

\* C7: for every transaction type without a specialized renderer and every
\* payload, generate fails with '<name> is not supported' and produces no
\* output, and both tables are as they were built.
C7_UnsupportedTransactionFails ==
    (Returned("generate")
       /\ call.t \notin (Peripherals \cup GenericWrites \cup DcsWrites))
    => /\ result.status = "raise"
       /\ result.value = <<"ValueError", call.t \o " is not supported">>
       /\ DCSCommand = DCSCommandTable
       /\ Transaction = TransactionTable

\* Rendering DCS_READ has failed.
C7_Witness ==
    /\ Returned("generate")
    /\ call.t = "DCS_READ"
    /\ call.payload = <<\h29>>
    /\ result.status = "raise"

\* C8: rendering SHUTDOWN_PERIPHERAL or TURN_ON_PERIPHERAL gives, for every
\* payload, the same error-checked call without arguments to
\* mipi_dsi_shutdown_peripheral or mipi_dsi_turn_on_peripheral; the
\* peripheral renderer called with any other transaction type fails.
C8_PeripheralIgnoresPayload ==
    /\ ((Returned("generate") \/ Returned("_generate_peripheral"))
          /\ call.t = "SHUTDOWN_PERIPHERAL")
       => /\ result.status = "return"
          /\ result.value.checked
          /\ result.value.callee = "mipi_dsi_shutdown_peripheral"
          /\ result.value.params = <<>>
          /\ result.value.text =
                 _check_ret("mipi_dsi_shutdown_peripheral(dsi)",
                            "shutdown peripheral")
    /\ ((Returned("generate") \/ Returned("_generate_peripheral"))
          /\ call.t = "TURN_ON_PERIPHERAL")
       => /\ result.status = "return"
          /\ result.value.checked
          /\ result.value.callee = "mipi_dsi_turn_on_peripheral"
          /\ result.value.params = <<>>
          /\ result.value.text =
                 _check_ret("mipi_dsi_turn_on_peripheral(dsi)",
                            "turn on peripheral")
    /\ (Returned("_generate_peripheral") /\ call.t \notin Peripherals)
       => /\ result.status = "raise"
          /\ result.value[1] = "ValueError"

\* SHUTDOWN_PERIPHERAL has been rendered with two payload bytes.
C8_Witness ==
    /\ Returned("generate")
    /\ call.t = "SHUTDOWN_PERIPHERAL"
    /\ call.payload = <<\h29, \h01>>
    /\ result.status = "return"
    /\ result.value.callee = "mipi_dsi_shutdown_peripheral"

\* C9: the integer codec of width W, on an input whose length is a multiple
\* of W, gives len/W tokens; token i is 0x followed by the 2*W hex digits of
\* the i-th group of W bytes read in the given byte order.  So width 2
\* big-endian on [a, b] and little-endian on [b, a] give the same token, and
\* both give 0x012c for the bytes 0x01 and 0x2C.
C9_IntCodecGroups ==
    (Returned("_get_params_int") /\ Len(call.b) % call.size = 0)
    => /\ result.status = "return"
       /\ Len(result.value) = Len(call.b) \div call.size
       /\ \A k \in 1..Len(result.value) :
              LET g == SubSeq(call.b, (k - 1) * call.size + 1, k * call.size)
              IN  result.value[k] =
                      "0x" \o GroupDigits(IF call.byteorder = "big"
                                          THEN g ELSE Reverse(g))
       /\ (call.size = 2 /\ Len(call.b) = 2) =>
              result.value =
                  _get_params_int(2,
                                  IF call.byteorder = "big" THEN "little" ELSE "big",
                                  <<call.b[2], call.b[1]>>)
       /\ (call.size = 2 /\ call.byteorder = "little" /\ call.b = <<\h2C, \h01>>)
              => result.value = <<"0x012c">>

\* The big-endian width-2 codec has decoded [0x01, 0x2C].
C9_Witness ==
    /\ Returned("_get_params_int")
    /\ call.size = 2
    /\ call.byteorder = "big"
    /\ call.b = <<\h01, \h2C>>
    /\ result.value = <<"0x012c">>

\* C10: the tear-mode codec maps the single byte 0 to the one token
\* MIPI_DSI_DCS_TEAR_MODE_VBLANK and 1 to MIPI_DSI_DCS_TEAR_MODE_VHBLANK, and
\* raises ValueError for every other byte; inside a render the failure ends
\* that call and leaves the tables as built.
C10_TearModeCodec ==
    /\ (Returned("TearMode.get_params") /\ Len(call.b) = 1)
       => /\ call.b[1] = 0 =>
                /\ result.status = "return"
                /\ result.value = <<"MIPI_DSI_DCS_TEAR_MODE_VBLANK">>
          /\ call.b[1] = 1 =>
                /\ result.status = "return"
                /\ result.value = <<"MIPI_DSI_DCS_TEAR_MODE_VHBLANK">>
          /\ call.b[1] \notin {0, 1} =>
                /\ result.status = "raise"
                /\ result.value[1] = "ValueError"
    /\ (DcsWriteRendered /\ Len(call.payload) = 2
          /\ call.payload[1] = \h35 /\ call.payload[2] \notin {0, 1})
       => /\ result.status = "raise"
          /\ result.value[1] = "ValueError"
          /\ DCSCommand = DCSCommandTable
          /\ Transaction = TransactionTable

\* The codec has been applied to the byte 2.
C10_Witness ==
    /\ Returned("TearMode.get_params")
    /\ call.b = <<2>>
    /\ result.status = "raise"

====
